---- MODULE Spec2Model ----
(***************************************************************************)
(* File transfer over QUIC datagrams / one QUIC stream.                    *)
(*   client.rs : DgHdr::write_to, ClientHandler (rate-paced sender)        *)
(*   server.rs : DgHdr::parse, ServerHandler (offset-addressed receiver)   *)
(* The transport (tquic Connection) is the environment: it answers each    *)
(* submission, carries accepted datagrams (any order, duplicated, lost),   *)
(* carries the stream in order, and raises the callbacks.                  *)
(***************************************************************************)
EXTENDS Integers, Sequences, FiniteSets, TLC

VARIABLES
    \* ---- sender configuration (ClientHandler::new) ----
    mode,               \* Mode::Datagram | Mode::Stream
    chunk,              \* opt.chunk_bytes
    interval_per_chunk, \* pacing interval, in clock ticks
    total_size,         \* file.metadata().len()
    csvOn,              \* opt.csv_send is Some
    \* ---- sender state (ClientHandler) ----
    sent_bytes,
    next_deadline,
    stream_id,          \* Option<u64>: None or a stream id
    opened,             \* the instant on_conn_established opened pacing (observation)
    finish,             \* ClientContext.finish, read by main
    exited,             \* main has left its loop
    csvSend,            \* lines appended to the send log
    pc,                 \* "created" | "idle" | "loop" | "closed"
    handler,            \* the callback that is running ("none" between callbacks)
    closeRequested,     \* conn.close(true, 0, "ok") has been called
    closes,             \* conn.close calls of the callback that runs or ran last
    txStart,            \* START of the client's monotonic_ns(): None until first used
    \* ---- what the sender asked of the transport (observation) ----
    chunks,             \* the chunks submitted to the transport, in order
    lastResult,         \* the transport's answer to the latest submission
    produced,           \* datagrams handed to datagram_send
    unpaired,           \* a submission counted as sent raised no outcome event
    \* ---- transport ----
    clock,              \* Instant::now() / monotonic_ns(), in ticks
    net,                \* datagrams the transport accepted
    owed,               \* delivery-outcome events not yet raised
    strm,               \* bytes accepted on the stream, in order
    strmFin,            \* the stream's final flag was accepted
    strmRead,           \* bytes of strm the receiver has read
    finSeen,            \* stream_read has returned fin
    handed,             \* datagrams handed to the receiver so far
    \* ---- receiver (ServerHandler) ----
    dgQueue,            \* datagrams waiting for conn.datagram_recv()
    rxPc,               \* "idle" | "drain" (inside handle_datagram's loop)
    dgram_files,        \* file_id -> FileRx
    stream_files,       \* stream_id -> FileRx
    fs,                 \* output directory: path -> file content
    csvRecv,            \* lines appended to the receive log
    csv_count,
    rxStart,            \* START of the server's monotonic_ns()
    rxCsvOn,            \* opt.csv_recv is Some
    finalized,          \* stream ids logged "finished" (observation)
    rxLast,             \* what the last receiver step did (observation)
    stored,             \* datagrams whose write completed (observation)
    completed,          \* file ids logged "completed" (observation)
    csv_flush_every,    \* opt.flush_every
    unflushed,          \* lines written to the receive log since its last flush
    rxConn,             \* the connection being served: 1 + connections closed
    \* ---- codec harness ----
    cHdr, cPayload, cWire, cParsed, cPhase

cfgVars == <<mode, chunk, interval_per_chunk, total_size, csvOn>>
txVars == <<sent_bytes, next_deadline, stream_id, opened, finish, exited, csvSend,
            pc, handler,
            closeRequested, closes, txStart, chunks, lastResult, produced,
            unpaired>>
netVars == <<net, owed, strm, strmFin, strmRead, finSeen, handed>>
rxVars == <<dgQueue, rxPc, dgram_files, stream_files, fs, csvRecv, csv_count,
            rxStart, rxCsvOn, finalized, rxLast, stored, completed,
            csv_flush_every, unflushed, rxConn>>
codecVars == <<cHdr, cPayload, cWire, cParsed, cPhase>>
vars == <<cfgVars, txVars, clock, netVars, rxVars, codecVars>>

\* Option<T>: None, or Some(x)
None == <<>>

Some(x) == <<x>>

Min(a, b) == IF a < b THEN a ELSE b

(***************************************************************************)
(* Bounds of the model.                                                    *)
(***************************************************************************)
MaxFile == 3        \* largest source file, in bytes
MaxChunk == 2       \* largest configured chunk size
MaxInterval == 1    \* largest pacing interval, in ticks
MaxClock == 2       \* the clock stops advancing here
MaxQueue == 2       \* datagrams waiting at the receiver
MaxCalls == 4       \* submissions per run (bounds the loop when chunk = 0)
MaxHanded == 3      \* datagrams handed to the receiver per run
MaxRead == 2        \* largest piece one stream_read returns
MaxFlush == 2       \* largest configured flush_every
MaxConns == 2       \* connections the server accepts per run
MaxPeerFile == 2    \* bytes each peer sends on its stream

(***************************************************************************)
(* Bytes and little-endian integers (bytes::BufMut / bytes::Buf).          *)
(***************************************************************************)
RECURSIVE PutLe(_, _)
\* put_u64_le / put_u32_le: the n low-order bytes of v, least significant first
PutLe(v, n) == IF n = 0 THEN <<>> ELSE <<v % 256>> \o PutLe(v \div 256, n - 1)

RECURSIVE GetLe(_)
\* get_u64_le / get_u32_le over the bytes b
GetLe(b) == IF b = <<>> THEN 0 ELSE b[1] + 256 * GetLe(Tail(b))

\* `x as u32`: keeps the four low-order bytes
AsU32(v) == GetLe(PutLe(v, 4))

HdrSize == 40

Slice(b, from, to) == IF to < from THEN <<>> ELSE SubSeq(b, from, to)

\* a header writer that puts the flags after the padding
WriteToFlagsLast(h) ==
    PutLe(h.file_id, 8) \o PutLe(h.total_size, 8) \o PutLe(h.offset, 8)
        \o PutLe(h.len, 4) \o <<0>> \o <<0>> \o <<0>> \o <<h.flags>>
        \o PutLe(h.send_ts_ns, 8)

\* DgHdr::write_to
WriteTo(h) ==
    PutLe(h.file_id, 8) \o PutLe(h.total_size, 8) \o PutLe(h.offset, 8)
        \o PutLe(h.len, 4) \o <<h.flags>> \o <<0>> \o <<0>> \o <<0>>
        \o PutLe(h.send_ts_ns, 8)

\* a parser that also refuses a message of exactly HdrSize bytes
ParseOverHdrSize(buf) ==
    IF Len(buf) <= HdrSize THEN None
    ELSE Some([hdr |-> [file_id |-> GetLe(Slice(buf, 1, 8)),
                   total_size |-> GetLe(Slice(buf, 9, 16)),
                   offset |-> GetLe(Slice(buf, 17, 24)),
                   len |-> GetLe(Slice(buf, 25, 28)),
                   flags |-> buf[29],
                   pad |-> <<0, 0, 0>>,
                   send_ts_ns |-> GetLe(Slice(buf, 33, 40))],
          payload |-> Slice(buf, HdrSize + 1, Len(buf))])

\* DgHdr::parse: None, or the header and the bytes after it
Parse(buf) ==
    IF Len(buf) < HdrSize THEN None
    ELSE Some([hdr |-> [file_id |-> GetLe(Slice(buf, 1, 8)),
                   total_size |-> GetLe(Slice(buf, 9, 16)),
                   offset |-> GetLe(Slice(buf, 17, 24)),
                   len |-> GetLe(Slice(buf, 25, 28)),
                   flags |-> buf[29],
                   pad |-> <<0, 0, 0>>,
                   send_ts_ns |-> GetLe(Slice(buf, 33, 40))],
          payload |-> Slice(buf, HdrSize + 1, Len(buf))])

\* DgHdr::is_last: flags & 0x01 != 0
IsLast(h) == h.flags % 2 = 1

(***************************************************************************)
(* Sender: ClientHandler (client.rs).                                      *)
(***************************************************************************)
\* hasher.finish() over the path and the size: one fixed 64-bit value per run
FileId == 16909060

\* the source file: total_size bytes, every offset holding a different value
SrcFile == [i \in 1..total_size |-> 16 + i]

RECURSIVE Hex16N(_, _)
Hex16N(v, n) == IF n = 0 THEN <<>> ELSE Hex16N(v \div 16, n - 1) \o <<v % 16>>

\* format!("{:016x}", v): sixteen hexadecimal digits, most significant first
Hex16(v) == Hex16N(v, 16)

\* monotonic_ns(): the time since START, which is set when first read
MonotonicNs(start, now) == IF start = None THEN 0 ELSE now - start[1]

Started(start, now) == IF start = None THEN Some(now) ELSE start

\* a count that advances by the configured chunk size, whatever was sent
AdvanceByChunk(sent, n) == sent + chunk

\* a count that stays where it is
StayPut(sent, n) == sent

\* self.sent_bytes += payload_size as u64
Advance(sent, n) == sent + n

\* remaining.min(self.chunk)
PayloadSize(total, sent, c) == Min(total - sent, c)

\* a final-chunk test that misses the chunk ending exactly at total
PastTotal(off, n, total) == off + n > total

\* (off + payload_size as u64) >= self.total_size
IsFinalChunk(off, n, total) == off + n >= total

\* a header that places every chunk at offset 0
MkHdrAtZero(off, n, now) ==
    [file_id |-> FileId, total_size |-> total_size, offset |-> 0,
     len |-> AsU32(n), flags |-> IF IsFinalChunk(off, n, total_size) THEN 1 ELSE 0,
     pad |-> <<0, 0, 0>>, send_ts_ns |-> now]

\* the header try_send_more builds for the chunk at off
MkHdr(off, n, now) ==
    [file_id |-> FileId, total_size |-> total_size, offset |-> off,
     len |-> AsU32(n), flags |-> IF IsFinalChunk(off, n, total_size) THEN 1 ELSE 0,
     pad |-> <<0, 0, 0>>, send_ts_ns |-> now]

\* the match arms `Ok(..) | Err(Error::Done)`: the chunk is counted as sent
\* a match whose first arm takes every answer
CountedAlways(res) == res \in {"Ok", "Partial", "Done", "Err"}

CountedAsSent(res) == res \in {"Ok", "Partial", "Done"}

\* log_send: one line when a send log is configured
LogSend(log, now, off, sz, m) ==
    IF csvOn THEN Append(log, <<"send", now, Hex16(FileId), off, sz, m>>) ELSE log

\* what a callback does after try_send_more returns
\* a test that is satisfied once anything was sent
AnySent(sent, total) == sent >= 1

\* if self.sent_bytes >= self.total_size
AllSent(sent, total) == sent >= total

\* an on_stream_writable that closes whenever try_send_more has returned
CloseOnReturn(h, sent, closed) == closed \/ h = "writable"

AfterTrySendMore(h, sent, closed) ==
    IF h = "writable" THEN closed \/ sent >= total_size ELSE closed

\* a callback that never closes after try_send_more
NoCloseAfter(h, sent) == 0

\* the conn.close calls a callback makes after try_send_more returns
ClosesAfter(h, sent) == IF h = "writable" /\ sent >= total_size THEN 1 ELSE 0

\* One callback runs at a time and runs to its end: the client and the server
\* each dispatch their callbacks on one thread, and a callback takes no
\* measurable time, so no other step is placed inside one.
Quiet == pc # "loop" /\ rxPc = "idle"

\* the record of a submission: a call that follows a failed one (a hard error)
\* takes its place, every other call is a new chunk
Submitted(c) ==
    IF lastResult = "Err" THEN Append(SubSeq(chunks, 1, Len(chunks) - 1), c)
    ELSE Append(chunks, c)

\* try_send_more up to its loop: close when everything is sent, else enter the loop
TrySendMore(h) ==
    /\ IF AllSent(sent_bytes, total_size)
          THEN /\ closeRequested' = TRUE
               /\ closes' = 1 + ClosesAfter(h, sent_bytes)
               /\ pc' = "idle"
               /\ handler' = "none"
          ELSE /\ closeRequested' = closeRequested
               /\ closes' = 0
               /\ pc' = "loop"
               /\ handler' = h
    /\ UNCHANGED <<sent_bytes, csvSend, txStart, chunks, lastResult, produced, unpaired>>

\* on_conn_established
OnConnEstablished ==
    /\ pc = "created"
    /\ Quiet
    /\ stream_id' = Some(0)      \* stream_bidi_new(3, true).unwrap_or(0)
    /\ next_deadline' = clock
    /\ opened' = Some(clock)
    /\ UNCHANGED <<finish, exited>>
    /\ TrySendMore("established")
    /\ UNCHANGED <<cfgVars, clock, netVars, rxVars, codecVars>>

\* on_stream_writable
OnStreamWritable ==
    /\ pc = "idle"
    /\ Quiet
    /\ TrySendMore("writable")
    /\ UNCHANGED <<next_deadline, stream_id, opened, finish, exited>>
    /\ UNCHANGED <<cfgVars, clock, netVars, rxVars, codecVars>>

\* a delivery-outcome event of one datagram reaches its callback
OutcomeEvent(h) ==
    /\ pc = "idle"
    /\ Quiet
    /\ owed > 0
    /\ owed' = owed - 1
    /\ TrySendMore(h)
    /\ UNCHANGED <<next_deadline, stream_id, opened, finish, exited>>
    /\ UNCHANGED <<cfgVars, clock, net, strm, strmFin, strmRead, finSeen, handed, rxVars, codecVars>>

\* on_datagram_acked
OnDatagramAcked == OutcomeEvent("acked")

\* on_datagram_drop
OnDatagramDrop == OutcomeEvent("drop")

\* on_datagram_longtime
OnDatagramLongtime == OutcomeEvent("longtime")

\* on_datagram_losted
OnDatagramLosted == OutcomeEvent("losted")

\* try_send_more returns to the callback, which returns to the endpoint
Return ==
    /\ pc' = "idle"
    /\ handler' = "none"
    /\ closeRequested' = AfterTrySendMore(handler, sent_bytes, closeRequested)
    /\ closes' = closes + ClosesAfter(handler, sent_bytes)

\* a deadline counted from the instant of the submission
DeadlineFromNow(deadline, interval) == clock + interval

\* self.next_deadline += self.interval_per_chunk
NextDeadline(deadline, interval) == deadline + interval

\* a loop that is paced but does not stop at the end of the file
PacedOnly == clock >= next_deadline

\* the while condition of try_send_more
LoopCond == sent_bytes < total_size /\ clock >= next_deadline

\* the loop ends: its condition is false
LoopExit ==
    /\ pc = "loop"
    /\ ~LoopCond
    /\ Return
    /\ UNCHANGED <<sent_bytes, next_deadline, stream_id, opened, finish, exited,
                   csvSend, txStart,
                   chunks, lastResult, produced, unpaired>>
    /\ UNCHANGED <<cfgVars, clock, netVars, rxVars, codecVars>>

\* read_exact_at_cross fails: break. A read into an empty buffer asks the file
\* for nothing and cannot fail
ReadFails ==
    /\ pc = "loop"
    /\ LoopCond
    /\ PayloadSize(total_size, sent_bytes, chunk) > 0
    /\ Return
    /\ UNCHANGED <<sent_bytes, next_deadline, stream_id, opened, finish, exited,
                   csvSend, txStart,
                   chunks, lastResult, produced, unpaired>>
    /\ UNCHANGED <<cfgVars, clock, netVars, rxVars, codecVars>>

\* one iteration of the loop, Mode::Datagram: the transport answers res; when it
\* answers Done it keeps nothing, and ev tells whether it still raises an event
SendDatagram(res, ev) ==
    LET off == sent_bytes
        n == PayloadSize(total_size, sent_bytes, chunk)
        hdr == MkHdr(off, n, MonotonicNs(txStart, clock))
        packet == WriteTo(hdr) \o Slice(SrcFile, off + 1, off + n)
    IN  /\ pc = "loop"
        /\ LoopCond
        /\ mode = "datagram"
        /\ Len(chunks) < MaxCalls
        /\ chunks' = Submitted([offset |-> off, len |-> n, last |-> IsLast(hdr)])
        /\ lastResult' = res
        /\ produced' = produced \cup {packet}
        /\ txStart' = Started(txStart, clock)
        /\ net' = IF res = "Ok" THEN net \cup {packet} ELSE net
        /\ owed' = IF res = "Ok" \/ (res = "Done" /\ ev) THEN owed + 1 ELSE owed
        /\ unpaired' = (unpaired \/ (res = "Done" /\ ~ev))
        /\ IF CountedAsSent(res)
              THEN /\ csvSend' = LogSend(csvSend, hdr.send_ts_ns, off, n, "datagram")
                   /\ sent_bytes' = Advance(sent_bytes, n)
                   /\ next_deadline' = NextDeadline(next_deadline, interval_per_chunk)
                   /\ UNCHANGED <<pc, handler, closeRequested, closes>>
              ELSE /\ UNCHANGED <<csvSend, sent_bytes, next_deadline>>
                   /\ Return
        /\ UNCHANGED <<stream_id, opened, finish, exited>>
        /\ UNCHANGED <<cfgVars, clock, strm, strmFin, strmRead, finSeen, handed, rxVars, codecVars>>

\* one iteration of the loop, Mode::Stream: the transport takes k bytes of the
\* buffer (all of them for Ok, fewer for Partial, none for Done and Err)
SendStream(res, k) ==
    LET off == sent_bytes
        n == PayloadSize(total_size, sent_bytes, chunk)
        fin == IsFinalChunk(off, n, total_size)
        buf == Slice(SrcFile, off + 1, off + n)
    IN  /\ pc = "loop"
        /\ LoopCond
        /\ mode = "stream"
        /\ stream_id # None
        /\ Len(chunks) < MaxCalls
        /\ ~strmFin
        /\ CASE res = "Ok" -> k = n
             [] res = "Partial" -> 0 < k /\ k < n
             [] OTHER -> k = 0
        /\ chunks' = Submitted([offset |-> off, len |-> n, last |-> fin])
        /\ lastResult' = res
        /\ strm' = strm \o Slice(buf, 1, k)
        /\ strmFin' = (res = "Ok" /\ fin)
        /\ IF CountedAsSent(res)
              THEN /\ csvSend' = LogSend(csvSend, MonotonicNs(txStart, clock), off, n,
                                          "stream")
                   /\ txStart' = Started(txStart, clock)
                   /\ sent_bytes' = Advance(sent_bytes, n)
                   /\ next_deadline' = NextDeadline(next_deadline, interval_per_chunk)
                   /\ UNCHANGED <<pc, handler, closeRequested, closes>>
              ELSE /\ UNCHANGED <<csvSend, txStart, sent_bytes, next_deadline>>
                   /\ Return
        /\ UNCHANGED <<stream_id, opened, finish, exited, produced, unpaired>>
        /\ UNCHANGED <<cfgVars, clock, net, owed, strmRead, finSeen, handed, rxVars, codecVars>>

\* on_conn_closed (client): the close the sender asked for has completed. The
\* handler only logs; main then tests the finish flag, as it does after every
\* process_connections
OnConnClosed ==
    /\ pc = "idle"
    /\ Quiet
    /\ closeRequested
    /\ pc' = "closed"
    /\ finish' = finish         \* _ctx is dropped by ClientHandler::new
    /\ exited' = finish'        \* main: if cli.finish() { break; }
    /\ UNCHANGED <<sent_bytes, next_deadline, stream_id, opened, csvSend, handler,
                   closeRequested, closes, txStart, chunks, lastResult, produced,
                   unpaired>>
    /\ UNCHANGED <<cfgVars, clock, netVars, rxVars, codecVars>>

\* Instant::now() moves on
Tick ==
    /\ Quiet
    /\ clock < MaxClock
    /\ clock' = clock + 1
    /\ UNCHANGED <<cfgVars, txVars, netVars, rxVars, codecVars>>

(***************************************************************************)
(* Receiver: ServerHandler (server.rs).                                    *)
(***************************************************************************)
\* out_dir.join(format!("dgram_{file_id:016x}_size{total}.bin"))
DgPath(id, total) == <<"dgram", Hex16(id), total>>

\* out_dir.join(format!("stream_{stream_id:016x}.bin"))
StreamPath(sid) == <<"stream", Hex16(sid)>>

\* OpenOptions::new().create(true).write(true).open(path): an existing file
\* keeps its content
OpenCreate(fsys, path) ==
    IF path \in DOMAIN fsys THEN fsys
    ELSE [q \in DOMAIN fsys \cup {path} |-> IF q = path THEN <<>> ELSE fsys[q]]

\* a write that ignores the offset and appends
WriteAtEnd(content, off, bytes) == content \o bytes

\* seek(SeekFrom::Start(off)) then write_all(bytes): the bytes land at off, the
\* file grows as needed (a gap reads as zeros), nothing else changes
WriteAt(content, off, bytes) ==
    IF bytes = <<>> THEN content
    ELSE [i \in 1..(IF Len(content) > off + Len(bytes) THEN Len(content)
                    ELSE off + Len(bytes)) |->
            IF off < i /\ i <= off + Len(bytes) THEN bytes[i - off]
            ELSE IF i <= Len(content) THEN content[i] ELSE 0]

\* a FileRx as inserted by get_or_create_dg_file / handle_stream_readable
NewFileRx(path, total) ==
    [path |-> path, cursor |-> 0, total |-> total, received_bytes |-> 0]

Put(f, key, val) == [q \in DOMAIN f \cup {key} |-> IF q = key THEN val ELSE f[q]]

\* a lookup that builds the entry from every chunk
CreateDgFileAnew(files, id, total) ==
    Put(files, id, NewFileRx(DgPath(id, total), total))

\* get_or_create_dg_file: the entry of id, made from this chunk's total when
\* there is none yet
GetOrCreateDgFile(files, id, total) ==
    IF id \in DOMAIN files THEN files
    ELSE Put(files, id, NewFileRx(DgPath(id, total), total))

\* a write of everything that follows the header
ToWriteAll(payload, hdr) == Len(payload)

\* std::cmp::min(payload.len(), hdr.len as usize)
ToWrite(payload, hdr) == Min(Len(payload), hdr.len)

\* a completion test that wants the file longer than the stored total
FinishIfLonger(files, fsys, id) ==
    id \in DOMAIN files /\ Len(fsys[files[id].path]) > files[id].total

\* finish_if_complete_dg: meta.len() >= rx.total
FinishIfCompleteDg(files, fsys, id) ==
    id \in DOMAIN files /\ Len(fsys[files[id].path]) >= files[id].total

\* self.csv_count % self.csv_flush_every == 0
FlushDue(count, every) == count % every = 0

\* csv_count % csv_flush_every with csv_flush_every = 0 panics ("attempt to
\* calculate the remainder with a divisor of zero"), after the line is written
\* and counted
CsvPanics == rxCsvOn /\ csv_flush_every = 0

\* the lines waiting for a flush once csv_line has written the line that
\* brings the count to count
AfterLine(count, waiting, every) ==
    IF every = 0 THEN waiting + 1
    ELSE IF FlushDue(count, every) THEN 0 ELSE waiting + 1

RECURSIVE AfterLines(_, _, _, _)
\* AfterLine for m successive lines
AfterLines(count, waiting, every, m) ==
    IF m = 0 THEN waiting
    ELSE AfterLines(count + 1, AfterLine(count + 1, waiting, every), every, m - 1)

\* csv_line: one line, one count and the flush test when a receive log is
\* configured
CsvLine(line) ==
    IF rxCsvOn
       THEN /\ csvRecv' = Append(csvRecv, line)
            /\ csv_count' = csv_count + 1
            /\ unflushed' = AfterLine(csv_count + 1, unflushed, csv_flush_every)
       ELSE UNCHANGED <<csvRecv, csv_count, unflushed>>

NoRx == [msg |-> <<>>, bad |-> FALSE, ok |-> FALSE, written |-> 0,
         last |-> FALSE, reported |-> FALSE, repeat |-> FALSE]

\* the network hands one of the sender's datagrams to the receiver's connection:
\* any accepted datagram, in any order, any number of times
DeliverDatagram ==
    /\ Quiet
    /\ Len(dgQueue) < MaxQueue
    /\ handed < MaxHanded
    /\ \E d \in net : dgQueue' = Append(dgQueue, d)
    /\ handed' = handed + 1
    /\ UNCHANGED <<rxPc, dgram_files, stream_files, fs, csvRecv, csv_count,
                   rxStart, rxCsvOn, finalized, rxLast, stored, completed,
                   csv_flush_every, unflushed, rxConn>>
    /\ UNCHANGED <<cfgVars, txVars, clock, net, owed, strm, strmFin, strmRead,
                   finSeen, codecVars>>

\* on_datagram_recvived: handle_datagram starts
OnDatagramRecvived ==
    /\ Quiet
    /\ dgQueue # <<>>
    /\ rxPc' = "drain"
    /\ UNCHANGED <<dgQueue, dgram_files, stream_files, fs, csvRecv, csv_count,
                   rxStart, rxCsvOn, finalized, rxLast, stored, completed,
                   csv_flush_every, unflushed, rxConn>>
    /\ UNCHANGED <<cfgVars, txVars, clock, netVars, codecVars>>

\* handle_datagram, one turn of `while let Some(bytes) = conn.datagram_recv()`.
\* io tells which file operation fails: "open" (OpenOptions::open), "write"
\* (seek or write_all, nothing written), or none ("ok")
HandleDatagram(io) ==
    LET bytes == Head(dgQueue)
        p == Parse(bytes)
        now_ns == MonotonicNs(rxStart, clock)
    IN  /\ rxPc = "drain"
        /\ dgQueue # <<>>
        /\ dgQueue' = Tail(dgQueue)
        /\ rxStart' = Started(rxStart, clock)
        /\ IF p = None
              THEN /\ rxLast' = [NoRx EXCEPT !.msg = bytes, !.bad = TRUE]
                   /\ UNCHANGED <<rxPc, dgram_files, fs, csvRecv, csv_count, unflushed,
                                  stored, completed>>
              ELSE LET hdr == p[1].hdr
                       payload == p[1].payload
                       known == hdr.file_id \in DOMAIN dgram_files
                       openErr == ~known /\ io = "open"
                       files1 == GetOrCreateDgFile(dgram_files, hdr.file_id,
                                                   hdr.total_size)
                       path == files1[hdr.file_id].path
                       fs1 == OpenCreate(fs, path)
                       n == ToWrite(payload, hdr)
                       wrOk == io # "write"
                       fs2 == IF wrOk
                              THEN [fs1 EXCEPT ![path] =
                                       WriteAt(@, hdr.offset, Slice(payload, 1, n))]
                              ELSE fs1
                       files2 == IF wrOk
                                 THEN [files1 EXCEPT ![hdr.file_id].cursor = hdr.offset + n]
                                 ELSE files1
                       done == /\ ~CsvPanics
                               /\ IsLast(hdr)
                               /\ FinishIfCompleteDg(files2, fs2, hdr.file_id)
                   IN  IF openErr
                          THEN /\ rxLast' = [NoRx EXCEPT !.msg = bytes, !.last = IsLast(hdr)]
                               /\ UNCHANGED <<rxPc, dgram_files, fs, csvRecv, csv_count,
                                              unflushed, stored, completed>>
                          ELSE /\ dgram_files' = files2
                               /\ fs' = fs2
                               /\ IF wrOk
                                     THEN /\ CsvLine(<<"recv", now_ns, Hex16(hdr.file_id),
                                                       hdr.offset, n, "datagram">>)
                                          /\ rxPc' = IF CsvPanics THEN "panicked" ELSE rxPc
                                          /\ stored' = stored \cup {bytes}
                                          /\ completed' = IF done
                                                          THEN completed \cup {hdr.file_id}
                                                          ELSE completed
                                     ELSE UNCHANGED <<rxPc, csvRecv, csv_count, unflushed,
                                                      stored, completed>>
                               /\ rxLast' = [msg |-> bytes, bad |-> FALSE, ok |-> wrOk,
                                             written |-> IF wrOk THEN n ELSE 0,
                                             last |-> IsLast(hdr),
                                             reported |-> wrOk /\ done,
                                             repeat |-> wrOk /\ rxLast.ok
                                                        /\ rxLast.msg = bytes]
        /\ UNCHANGED <<stream_files, rxCsvOn, finalized, csv_flush_every, rxConn>>
        /\ UNCHANGED <<cfgVars, txVars, clock, netVars, codecVars>>

\* handle_datagram returns: datagram_recv() gave None
HandleDatagramEnd ==
    /\ rxPc = "drain"
    /\ dgQueue = <<>>
    /\ rxPc' = "idle"
    /\ UNCHANGED <<dgQueue, dgram_files, stream_files, fs, csvRecv, csv_count,
                   rxStart, rxCsvOn, finalized, rxLast, stored, completed,
                   csv_flush_every, unflushed, rxConn>>
    /\ UNCHANGED <<cfgVars, txVars, clock, netVars, codecVars>>

RECURSIVE Pieces(_, _)
\* the sizes of the successive stream_read results when avail bytes are waiting
\* and each read returns at most k
Pieces(avail, k) ==
    IF avail = 0 THEN <<>> ELSE <<Min(avail, k)>> \o Pieces(avail - Min(avail, k), k)

RECURSIVE StreamLines(_, _)
\* csv_line(&format!("recv,{now},0,{n},stream")) for each piece read
StreamLines(sizes, now) ==
    IF sizes = <<>> THEN <<>>
    ELSE <<<<"recv", now, 0, Head(sizes), "stream">>>> \o StreamLines(Tail(sizes), now)

\* on_stream_readable -> handle_stream_readable: the whole handler. Each
\* stream_read returns at most k bytes; io as in HandleDatagram
OnStreamReadable(io, k) ==
    LET sid == stream_id[1]
        known == sid \in DOMAIN stream_files
        path == StreamPath(sid)
        files1 == IF known THEN stream_files ELSE Put(stream_files, sid, NewFileRx(path, 0))
        fs1 == OpenCreate(fs, path)
        rx == files1[sid]
        avail == Len(strm) - strmRead
        data == Slice(strm, strmRead + 1, Len(strm))
        sizes == Pieces(avail, k)
    IN  /\ Quiet
        /\ stream_id # None
        /\ ~finSeen
        /\ strmRead < Len(strm) \/ strmFin
        /\ IF ~known /\ io = "open"
              THEN UNCHANGED <<stream_files, fs, csvRecv, csv_count, unflushed, finalized,
                               strmRead, finSeen, rxStart, rxPc>>
              ELSE IF avail > 0 /\ io = "write"
              THEN \* the first write_all fails: the piece is gone, the loop breaks
                   /\ stream_files' = files1
                   /\ fs' = fs1
                   /\ strmRead' = strmRead + Head(sizes)
                   /\ finSeen' = (strmFin /\ Head(sizes) = avail)
                   /\ UNCHANGED <<csvRecv, csv_count, unflushed, finalized, rxStart, rxPc>>
              ELSE IF avail > 0 /\ CsvPanics
              THEN \* the first piece is written and logged, then csv_line panics
                   /\ stream_files' = [files1 EXCEPT
                                         ![sid].cursor = @ + Head(sizes),
                                         ![sid].received_bytes = @ + Head(sizes)]
                   /\ fs' = [fs1 EXCEPT ![path] =
                                 WriteAt(@, rx.cursor, Slice(data, 1, Head(sizes)))]
                   /\ strmRead' = strmRead + Head(sizes)
                   /\ finSeen' = (strmFin /\ Head(sizes) = avail)
                   /\ rxStart' = Started(rxStart, clock)
                   /\ csvRecv' = csvRecv \o StreamLines(<<Head(sizes)>>,
                                                        MonotonicNs(rxStart, clock))
                   /\ csv_count' = csv_count + 1
                   /\ unflushed' = AfterLine(csv_count + 1, unflushed, csv_flush_every)
                   /\ rxPc' = "panicked"
                   /\ UNCHANGED finalized
              ELSE /\ rxPc' = rxPc
                   /\ stream_files' = [files1 EXCEPT
                                         ![sid].cursor = @ + avail,
                                         ![sid].received_bytes = @ + avail]
                   /\ fs' = [fs1 EXCEPT ![path] = WriteAt(@, rx.cursor, data)]
                   /\ strmRead' = Len(strm)
                   /\ finSeen' = strmFin
                   /\ finalized' = IF strmFin THEN finalized \cup {sid} ELSE finalized
                   /\ rxStart' = IF avail > 0 THEN Started(rxStart, clock) ELSE rxStart
                   /\ IF rxCsvOn
                         THEN /\ csvRecv' = csvRecv \o StreamLines(sizes,
                                                                  MonotonicNs(rxStart, clock))
                              /\ csv_count' = csv_count + Len(sizes)
                              /\ unflushed' = AfterLines(csv_count, unflushed,
                                                         csv_flush_every, Len(sizes))
                         ELSE UNCHANGED <<csvRecv, csv_count, unflushed>>
        /\ UNCHANGED <<dgQueue, dgram_files, rxCsvOn, rxLast, stored, completed,
                       csv_flush_every, rxConn>>
        /\ UNCHANGED <<cfgVars, txVars, clock, net, owed, strm, strmFin, handed, codecVars>>

\* the file the c-th peer of the server transfers
PeerFile(c) == [i \in 1..MaxPeerFile |-> 32 * c + i]

\* the peer of the connection being served writes the next n bytes of its file
\* on its stream, with fin on the last one
PeerStreamWrite(n) ==
    /\ Quiet
    /\ rxConn <= MaxConns
    /\ ~strmFin
    /\ Len(strm) + n <= MaxPeerFile
    /\ strm' = strm \o Slice(PeerFile(rxConn), Len(strm) + 1, Len(strm) + n)
    /\ strmFin' = (Len(strm) + n = MaxPeerFile)
    /\ UNCHANGED <<cfgVars, txVars, clock, net, owed, strmRead, finSeen, handed,
                   rxVars, codecVars>>

\* on_conn_closed of the server: the log is flushed, the handler's maps are
\* left as they are. The next connection the endpoint accepts is served by the
\* same handler (Server::new builds one) and brings a stream of its own.
ServerOnConnClosed ==
    /\ Quiet
    /\ rxConn <= MaxConns
    /\ unflushed' = 0
    /\ rxConn' = rxConn + 1
    /\ strm' = <<>>
    /\ strmFin' = FALSE
    /\ strmRead' = 0
    /\ finSeen' = FALSE
    /\ UNCHANGED <<dgQueue, rxPc, dgram_files, stream_files, fs, csvRecv, csv_count,
                   rxStart, rxCsvOn, finalized, rxLast, stored, completed,
                   csv_flush_every>>
    /\ UNCHANGED <<cfgVars, txVars, clock, net, owed, handed, codecVars>>

(***************************************************************************)
(* Codec harness: write_to on the sender, parse on the receiver.           *)
(***************************************************************************)
HdrInputs ==
    [file_id : {0, 16909060, 2147483647}, total_size : {0, 258}, offset : {0, 65536},
     len : {0, 2, 513}, flags : {0, 1, 254, 255}, pad : {<<0, 0, 0>>},
     send_ts_ns : {0, 2147483647}]

PayloadInputs == {<<>>, <<9>>, <<7, 8>>}

\* hdr.write_to(&mut packet); packet.extend_from_slice(&buf)
Encode ==
    /\ cPhase = "input"
    /\ cWire' = WriteTo(cHdr) \o cPayload
    /\ cPhase' = "wire"
    /\ UNCHANGED <<cHdr, cPayload, cParsed>>
    /\ UNCHANGED <<cfgVars, txVars, clock, netVars, rxVars>>

\* the message reaches the receiver cut down to its first n bytes
Cut(n) ==
    /\ cPhase = "wire"
    /\ n < Len(cWire)
    /\ cWire' = Slice(cWire, 1, n)
    /\ cPhase' = "cut"
    /\ UNCHANGED <<cHdr, cPayload, cParsed>>
    /\ UNCHANGED <<cfgVars, txVars, clock, netVars, rxVars>>

\* DgHdr::parse(&bytes)
Decode ==
    /\ cPhase \in {"wire", "cut"}
    /\ cParsed' = Parse(cWire)
    /\ cPhase' = IF cPhase = "wire" THEN "parsed" ELSE "parsed-cut"
    /\ UNCHANGED <<cHdr, cPayload, cWire>>
    /\ UNCHANGED <<cfgVars, txVars, clock, netVars, rxVars>>

(***************************************************************************)
(* Specifications.                                                         *)
(***************************************************************************)
\* what an earlier run left in the output directory
Stale == [i \in 1..(MaxFile + 1) |-> 238]

\* ClientHandler::new and ServerHandler::new, before the connection exists
TransferInit ==
    /\ mode \in {"datagram", "stream"}
    /\ chunk \in 0..MaxChunk
    /\ interval_per_chunk \in 0..MaxInterval
    /\ chunk = 0 => interval_per_chunk = 0
    /\ total_size \in 0..MaxFile
    /\ csvOn \in BOOLEAN
    /\ sent_bytes = 0
    /\ next_deadline = 0
    /\ stream_id = None
    /\ opened = None
    /\ finish = FALSE
    /\ exited = FALSE
    /\ csvSend = <<>>
    /\ pc = "created"
    /\ handler = "none"
    /\ closeRequested = FALSE
    /\ closes = 0
    /\ txStart = None
    /\ chunks = <<>>
    /\ lastResult = "none"
    /\ produced = {}
    /\ unpaired = FALSE
    /\ clock = 0
    /\ net = {}
    /\ owed = 0
    /\ strm = <<>>
    /\ strmFin = FALSE
    /\ strmRead = 0
    /\ finSeen = FALSE
    /\ handed = 0
    /\ dgQueue = <<>>
    /\ rxPc = "idle"
    /\ dgram_files = <<>>
    /\ stream_files = <<>>
    /\ fs \in {<<>>, [q \in {DgPath(FileId, total_size)} |-> Stale]}
    /\ csvRecv = <<>>
    /\ csv_count = 0
    /\ rxStart = None
    /\ rxCsvOn \in BOOLEAN
    /\ finalized = {}
    /\ rxLast = NoRx
    /\ stored = {}
    /\ completed = {}
    /\ csv_flush_every = MaxFlush
    /\ unflushed = 0
    /\ rxConn = 1

CodecOff ==
    /\ cHdr = None /\ cPayload = <<>> /\ cWire = <<>> /\ cParsed = None
    /\ cPhase = "off"

\* the sender's callbacks and the steps of its pacing loop
SenderNext ==
    \/ OnConnEstablished
    \/ OnStreamWritable
    \/ OnDatagramAcked
    \/ OnDatagramDrop
    \/ OnDatagramLongtime
    \/ OnDatagramLosted
    \/ LoopExit
    \/ ReadFails
    \/ \E res \in {"Ok", "Done", "Err"}, ev \in BOOLEAN : SendDatagram(res, ev)
    \/ \E res \in {"Ok", "Partial", "Done", "Err"}, k \in 0..MaxChunk : SendStream(res, k)
    \/ OnConnClosed
    \/ Tick

\* the receiver's datagram path, fed by the network
DatagramRxNext ==
    \/ DeliverDatagram
    \/ OnDatagramRecvived
    \/ \E io \in {"ok", "open", "write"} : HandleDatagram(io)
    \/ HandleDatagramEnd

\* End to end: one sender, the transport, one receiver, with no log configured
\* on either side; the files can be read and written and the transport answers
\* Ok or Done (the faults are explored in SenderSpec and ReceiverSpec).
Init ==
    /\ TransferInit
    /\ chunk > 0
    /\ ~csvOn /\ ~rxCsvOn
    /\ CodecOff

Next ==
    \/ OnConnEstablished
    \/ OnStreamWritable
    \/ OnDatagramAcked
    \/ OnDatagramDrop
    \/ OnDatagramLongtime
    \/ OnDatagramLosted
    \/ LoopExit
    \/ \E res \in {"Ok", "Done"}, ev \in BOOLEAN : SendDatagram(res, ev)
    \/ \E res \in {"Ok", "Partial", "Done"}, k \in 0..MaxChunk : SendStream(res, k)
    \/ OnConnClosed
    \/ Tick
    \/ DeliverDatagram
    \/ OnDatagramRecvived
    \/ HandleDatagram("ok")
    \/ HandleDatagramEnd
    \/ \E k \in 1..MaxRead : OnStreamReadable("ok", k)

Spec == Init /\ [][Next]_vars

\* The sender alone, against every answer of the transport.
SenderInit ==
    /\ TransferInit
    /\ ~rxCsvOn /\ fs = <<>>
    /\ CodecOff

SenderSpec == SenderInit /\ [][SenderNext]_vars

\* a delivery-outcome event of either kind
OnDatagramOutcome ==
    OnDatagramAcked \/ OnDatagramDrop \/ OnDatagramLongtime \/ OnDatagramLosted

\* The sender under a transport that keeps its promises: the connection is
\* established, a callback that has nothing left to send returns, every event
\* the transport owes is raised, and a stream keeps raising writable events.
SenderLiveSpec ==
    /\ SenderSpec
    /\ WF_vars(OnConnEstablished)
    /\ WF_vars(LoopExit)
    /\ SF_vars(OnDatagramOutcome)
    /\ SF_vars(mode = "stream" /\ OnStreamWritable)

\* The sender in datagram mode under the best of conditions: the connection is
\* established at instant 0, reads succeed, every datagram_send answers Ok,
\* every datagram accepted yields one delivery-outcome event, and nothing else
\* calls the sender. The chunk is not empty and the last pacing deadline a
\* chunk has to wait for lies within the modelled clock.
DatagramLiveInit ==
    /\ SenderInit
    /\ mode = "datagram"
    /\ chunk >= 1
    /\ interval_per_chunk * total_size <= MaxClock + interval_per_chunk

\* Instant::now() moves on once the connection exists
TickEstablished == pc # "created" /\ Tick

DatagramLiveNext ==
    \/ OnConnEstablished
    \/ OnDatagramAcked
    \/ OnDatagramDrop
    \/ OnDatagramLongtime
    \/ OnDatagramLosted
    \/ LoopExit
    \/ SendDatagram("Ok", TRUE)
    \/ OnConnClosed
    \/ TickEstablished

DatagramLiveSpec ==
    /\ DatagramLiveInit /\ [][DatagramLiveNext]_vars
    /\ WF_vars(OnConnEstablished)
    /\ WF_vars(LoopExit)
    /\ WF_vars(SendDatagram("Ok", TRUE))
    /\ SF_vars(OnDatagramOutcome)
    /\ WF_vars(TickEstablished)

\* the other sender whose datagrams reach the same server
OtherId == FileId + 67372036

\* DgHdr literal
Hdr(id, total, off, len, flags) ==
    [file_id |-> id, total_size |-> total, offset |-> off, len |-> len,
     flags |-> flags, pad |-> <<0, 0, 0>>, send_ts_ns |-> 0]

\* the datagram try_send_more builds for the chunk at off
SenderPacket(off) ==
    WriteTo(MkHdr(off, PayloadSize(total_size, off, chunk), 0))
        \o Slice(SrcFile, off + 1, off + PayloadSize(total_size, off, chunk))

\* what the network may hand the receiver: the three chunks of the sender's
\* 5-byte file (chunk size 2), a chunk of the same transfer declaring another
\* total, chunks of another transfer whose declared length and payload differ,
\* a header with nothing after it, and a message too short for a header
Inbound ==
    { SenderPacket(0), SenderPacket(2), SenderPacket(4),
      WriteTo(Hdr(FileId, 2, 0, 1, 1)) \o <<33>>,
      WriteTo(Hdr(OtherId, 2, 1, 3, 1)) \o <<7>>,
      WriteTo(Hdr(OtherId, 2, 2, 1, 0)) \o <<8, 9>>,
      WriteTo(Hdr(OtherId, 2, 0, 2, 0)),
      [i \in 1..(HdrSize - 1) |-> 0] }

\* The receiver alone, against every datagram of Inbound in every order.
ReceiverInit ==
    /\ mode = "datagram" /\ chunk = 2 /\ interval_per_chunk = 0 /\ total_size = 5
    /\ csvOn = FALSE
    /\ sent_bytes = 0 /\ next_deadline = 0 /\ stream_id = None /\ opened = None
    /\ finish = FALSE /\ exited = FALSE
    /\ csvSend = <<>>
    /\ pc = "created" /\ handler = "none" /\ closeRequested = FALSE /\ closes = 0
    /\ txStart = None /\ rxStart = None
    /\ chunks = <<>> /\ lastResult = "none" /\ produced = {} /\ unpaired = FALSE
    /\ clock = 0
    /\ net = Inbound
    /\ owed = 0 /\ strm = <<>> /\ strmFin = FALSE /\ strmRead = 0 /\ finSeen = FALSE
    /\ handed = 0
    /\ dgQueue = <<>> /\ rxPc = "idle"
    /\ dgram_files = <<>> /\ stream_files = <<>>
    /\ fs \in {<<>>, [q \in {DgPath(FileId, total_size)} |-> Stale]}
    /\ csvRecv = <<>> /\ csv_count = 0
    /\ rxCsvOn \in BOOLEAN
    /\ finalized = {} /\ rxLast = NoRx /\ stored = {} /\ completed = {}
    /\ csv_flush_every \in 1..MaxFlush /\ unflushed = 0 /\ rxConn = 1
    /\ CodecOff

ReceiverSpec == ReceiverInit /\ [][DatagramRxNext]_vars

\* write_to and parse alone, over HdrInputs and PayloadInputs.
CodecInit ==
    /\ TransferInit
    /\ mode = "datagram" /\ chunk = 1 /\ interval_per_chunk = 0 /\ total_size = 1
    /\ csvOn /\ rxCsvOn /\ fs = <<>>
    /\ cHdr \in HdrInputs
    /\ cPayload \in PayloadInputs
    /\ cWire = <<>>
    /\ cParsed = None
    /\ cPhase = "input"

CodecNext ==
    \/ Encode
    \/ \E n \in {0, 1, HdrSize - 1, HdrSize, HdrSize + 1} : Cut(n)
    \/ Decode

CodecSpec == CodecInit /\ [][CodecNext]_vars

\* The receiver's stream path and its log, serving MaxConns connections one
\* after the other. Every peer sends its file on its first bidirectional
\* stream, which has the same id on every connection.
StreamRxInit ==
    /\ mode = "stream" /\ chunk = 1 /\ interval_per_chunk = 0
    /\ total_size = MaxPeerFile
    /\ csvOn = FALSE
    /\ sent_bytes = 0 /\ next_deadline = 0 /\ stream_id = Some(0) /\ opened = None
    /\ finish = FALSE /\ exited = FALSE
    /\ csvSend = <<>>
    /\ pc = "created" /\ handler = "none" /\ closeRequested = FALSE /\ closes = 0
    /\ txStart = None /\ rxStart = None
    /\ chunks = <<>> /\ lastResult = "none" /\ produced = {} /\ unpaired = FALSE
    /\ clock = 0
    /\ net = {}
    /\ owed = 0 /\ strm = <<>> /\ strmFin = FALSE /\ strmRead = 0 /\ finSeen = FALSE
    /\ handed = 0
    /\ dgQueue = <<>> /\ rxPc = "idle"
    /\ dgram_files = <<>> /\ stream_files = <<>>
    /\ fs \in {<<>>, [q \in {StreamPath(0)} |-> Stale]}
    /\ csvRecv = <<>> /\ csv_count = 0
    /\ rxCsvOn \in BOOLEAN
    /\ finalized = {} /\ rxLast = NoRx /\ stored = {} /\ completed = {}
    /\ csv_flush_every \in 0..MaxFlush /\ unflushed = 0 /\ rxConn = 1
    /\ CodecOff

StreamRxNext ==
    \/ \E n \in 1..MaxPeerFile : PeerStreamWrite(n)
    \/ \E io \in {"ok", "open", "write"}, k \in 1..MaxRead : OnStreamReadable(io, k)
    \/ ServerOnConnClosed
    \/ Tick

StreamRxSpec == StreamRxInit /\ [][StreamRxNext]_vars

(***************************************************************************)
(* Properties.                                                             *)
(***************************************************************************)
\* the receiver's output file of the sender's transfer
OutputBytes ==
    IF FileId \in DOMAIN dgram_files THEN fs[dgram_files[FileId].path] ELSE <<>>

\* every datagram the sender produced has reached the receiver and been written
AllDelivered == produced \subseteq stored

\* C1. Datagram round trip without loss: once sent_bytes = total_size and every
\* datagram the sender produced has been delivered (in any order, any number of
\* times), the output file holds the source file's bytes at every offset below
\* total_size.
C1_DatagramRoundTrip ==
    (mode = "datagram" /\ sent_bytes = total_size /\ AllDelivered)
        => /\ Len(OutputBytes) >= total_size
           /\ \A i \in 1..total_size : OutputBytes[i] = SrcFile[i]

\* C1 witness: a 3-byte file sent in chunks of 2 over a stale output file, both
\* datagrams written, the first chunk handled last, one of them handled twice
C1_Witness ==
    /\ mode = "datagram" /\ total_size = 3 /\ chunk = 2
    /\ sent_bytes = total_size /\ AllDelivered
    /\ Cardinality(produced) = 2
    /\ handed = 3 /\ dgQueue = <<>> /\ rxPc = "idle"
    /\ rxLast.msg = SenderPacket(0)
    /\ Len(OutputBytes) > total_size

\* C2. Stream round trip: when the final segment has been processed, the output
\* file equals the source file and received_bytes equals total_size.
C2_StreamRoundTrip ==
    (mode = "stream" /\ finalized # {})
        => /\ fs[StreamPath(stream_id[1])] = SrcFile
           /\ stream_files[stream_id[1]].received_bytes = total_size

\* the number of chunks of a total_size-byte file
NumChunks == (total_size + chunk - 1) \div chunk

\* the chunks submitted so far are the leading chunks of the partition of
\* [0, total_size) into pieces of chunk bytes, all of them once the transfer is
\* complete, and the last flag is on the final piece and on no other
PartitionOk ==
    /\ Len(chunks) <= NumChunks
    /\ sent_bytes = total_size => Len(chunks) = NumChunks
    /\ \A i \in 1..Len(chunks) :
          /\ chunks[i].offset = (i - 1) * chunk
          /\ chunks[i].len = IF i < NumChunks THEN chunk
                             ELSE IF total_size % chunk # 0
                                     THEN total_size % chunk
                                     ELSE chunk
          /\ chunks[i].last <=> i = NumChunks

Answered(res) ==
    /\ pc = "loop"
    /\ lastResult' = res
    /\ (lastResult # res \/ chunks' # chunks)

\* C4. Would-block: when the transport answers that it cannot accept the chunk
\* now (Done), sent_bytes and next_deadline keep their values, no send record is
\* written, and the loop ends.
C4_WouldBlock ==
    [][Answered("Done")
          => /\ sent_bytes' = sent_bytes
             /\ next_deadline' = next_deadline
             /\ csvSend' = csvSend
             /\ pc' = "idle"]_vars

\* C5. sent_bytes stays within 0..total_size and never decreases.
C5_SentBytesBounded ==
    /\ [](0 <= sent_bytes /\ sent_bytes <= total_size)
    /\ [][sent_bytes' >= sent_bytes]_vars

\* C5 witness: the remainder chunk of a 3-byte file brought sent_bytes to 3
C5_Witness ==
    /\ total_size = 3 /\ chunk = 2 /\ sent_bytes = 3
    /\ lastResult = "Ok" /\ Len(chunks) = 2

\* C6. Sender termination: when every submitted datagram yields one
\* delivery-outcome event, or the stream yields writable events, the sender
\* that has reached sent_bytes = total_size requests a close; and once
\* sent_bytes = total_size no further chunk is submitted.
C6_SenderTerminates ==
    /\ (sent_bytes = total_size /\ ~unpaired) ~> closeRequested
    /\ [][sent_bytes = total_size
             => UNCHANGED <<chunks, lastResult, produced, net, strm>>]_vars

\* C6 witness: the close was requested after a 3-byte transfer in two datagrams
C6_Witness ==
    /\ mode = "datagram" /\ total_size = 3 /\ Len(chunks) = 2
    /\ sent_bytes = total_size /\ ~unpaired /\ closeRequested

\* a step of handle_datagram: it takes the message at the head of the queue
Handles == rxPc = "drain" /\ dgQueue # <<>>

\* C7. Idempotent write: handling the same datagram again, both writes
\* succeeding, leaves every output file (content and length) and the file table
\* as they were after the first time.
C7_IdempotentWrite ==
    [][(Handles /\ rxLast.ok /\ Head(dgQueue) = rxLast.msg /\ rxLast'.ok)
          => (fs' = fs /\ dgram_files' = dgram_files)]_vars

\* C7 witness: the 2-byte chunk at offset 2 was written twice in a row
C7_Witness ==
    /\ rxLast.repeat
    /\ rxLast.msg = SenderPacket(2)
    /\ rxLast.written = 2

RECURSIVE ByteOf(_, _)
\* byte k (0 = least significant) of the value v
ByteOf(v, k) == IF k = 0 THEN v % 256 ELSE ByteOf(v \div 256, k - 1)

\* the w bytes of wire from position at hold v, least significant byte first
LittleEndianAt(wire, at, w, v) ==
    \A k \in 0..(w - 1) : wire[at + k + 1] = ByteOf(v, k)

\* C8. Header round trip: the encoded message is 40 header bytes followed by the
\* payload; the header holds file_id at 0, total_size at 8, offset at 16 (8 bytes
\* each), len at 24 (4 bytes), flags at 28, three zero bytes at 29, send_ts_ns at
\* 32 (8 bytes), all little-endian; decoding gives back the header and the
\* payload.
C8_HeaderRoundTrip ==
    /\ cPhase \in {"wire", "parsed"}
         => /\ Len(cWire) = 40 + Len(cPayload)
            /\ LittleEndianAt(cWire, 0, 8, cHdr.file_id)
            /\ LittleEndianAt(cWire, 8, 8, cHdr.total_size)
            /\ LittleEndianAt(cWire, 16, 8, cHdr.offset)
            /\ LittleEndianAt(cWire, 24, 4, cHdr.len)
            /\ cWire[29] = cHdr.flags
            /\ cWire[30] = 0 /\ cWire[31] = 0 /\ cWire[32] = 0
            /\ LittleEndianAt(cWire, 32, 8, cHdr.send_ts_ns)
            /\ \A i \in 1..Len(cPayload) : cWire[40 + i] = cPayload[i]
    /\ cPhase = "parsed"
         => /\ cParsed # None
            /\ cParsed[1].hdr = cHdr
            /\ cParsed[1].payload = cPayload

\* C8 witness: a header with multi-byte fields, flag bits beyond bit 0 and a
\* 2-byte payload has been encoded and decoded
C8_Witness ==
    /\ cPhase = "parsed"
    /\ cHdr.file_id = 16909060 /\ cHdr.offset = 65536 /\ cHdr.len = 513
    /\ cHdr.flags = 254 /\ cHdr.send_ts_ns = 2147483647
    /\ cPayload = <<7, 8>>

\* C9. Malformed header: decoding fails exactly when the message is shorter than
\* 40 bytes; such a message is dropped, leaving files, tables, logs and counters
\* as they were, and the messages queued behind it are still handled.
C9_MalformedDropped ==
    [][Handles
          => /\ rxLast'.bad <=> Len(Head(dgQueue)) < 40
             /\ Len(Head(dgQueue)) < 40
                  => /\ UNCHANGED <<dgram_files, stream_files, fs, csvRecv, csv_count,
                                    stored, completed, finalized>>
                     /\ dgQueue' = Tail(dgQueue)
                     /\ rxPc' = "drain"]_vars

\* C9 witness: a 39-byte message was dropped while files existed, a log was
\* kept, and another message is waiting behind it
C9_Witness ==
    /\ rxLast.bad /\ Len(rxLast.msg) = 39
    /\ rxPc = "drain" /\ dgQueue # <<>>
    /\ dgram_files # <<>> /\ csv_count > 0

\* the transfer the last handled message belongs to
LastId == GetLe(Slice(rxLast.msg, 1, 8))

Submits == \E res \in {"Ok", "Partial", "Done", "Err"} : Answered(res)

\* chunk i of chunks was counted as sent (every one but a failed latest one)
Counted(i) == i < Len(chunks) \/ lastResult # "Err"

\* C11. No retransmission: every submission starts at sent_bytes, at or past
\* the end of every chunk counted as sent, whatever outcome events re-entered
\* the sender; so a chunk of one byte or more that was counted as sent (and may
\* since have been reported lost, dropped or expired) is never submitted again.
\* Only a chunk whose submission failed is submitted once more.
C11_NoRetransmission ==
    [][Submits
          => /\ chunks'[Len(chunks')].offset = sent_bytes
             /\ \A i \in 1..Len(chunks) :
                   Counted(i)
                     => /\ chunks[i].offset + chunks[i].len <= sent_bytes
                        /\ chunks[i].len >= 1 => chunks[i].offset < sent_bytes]_vars

\* C11 as stated, for chunks of one byte or more: the offset of every
\* submission is greater than the offset of the submission before it.
C11_StrictlyIncreasing ==
    [][(chunk >= 1 /\ Submits /\ chunks # <<>>)
          => sent_bytes > chunks[Len(chunks)].offset]_vars

\* C11 witness: the first chunk went out at establishment, a lost event
\* re-entered the sender after the pacing interval, and the sender went on
\* with the second chunk
C11_Witness ==
    /\ mode = "datagram" /\ interval_per_chunk = 1
    /\ handler = "losted" /\ pc = "loop"
    /\ chunks = <<[offset |-> 0, len |-> 1, last |-> FALSE],
                  [offset |-> 1, len |-> 1, last |-> FALSE]>>


\* the five events that re-enter the sender
ReentryEvents == {"writable", "acked", "drop", "longtime", "losted"}

\* a callback finds something left to send and enters the loop
Enters == pc = "idle" /\ pc' = "loop"

\* a callback finds everything sent: try_send_more closes and returns
EntersDone == pc = "idle" /\ pc' = "idle" /\ sent_bytes >= total_size /\ clock' = clock

\* the running callback returns to the endpoint
Returns == pc = "loop" /\ pc' = "idle"

\* what no callback changes on entry or on return
SenderDataKept ==
    UNCHANGED <<sent_bytes, next_deadline, stream_id, csvSend, chunks, lastResult,
                produced, net, strm, strmFin>>

\* C12. Event fan-in: the four datagram outcome callbacks do what try_send_more
\* does and nothing else, so they are alike: entered with something left they
\* enter the loop, entered with everything sent they close once, and on return
\* they call nothing. The stream-writable callback enters the same way, and on
\* return it requests a close when sent_bytes >= total_size: a close in the
\* invocation that sends the final chunk, a second close call when entered with
\* everything sent.
C12_FanIn ==
    [][/\ Enters
            => /\ handler' \in ReentryEvents
               /\ closes' = 0 /\ closeRequested' = closeRequested
               /\ SenderDataKept
       /\ EntersDone
            => /\ closeRequested'
               /\ closes' = IF owed' = owed THEN 2 ELSE 1
               /\ SenderDataKept
       /\ Returns
            => /\ closes' = IF handler = "writable" /\ sent_bytes' >= total_size
                            THEN closes + 1 ELSE closes
               /\ closeRequested' = (closeRequested \/ closes' > closes)
               /\ UNCHANGED <<sent_bytes, next_deadline, stream_id>>
       /\ (pc = "loop" /\ pc' = "loop") => handler' = handler /\ closes' = closes]_vars

\* C12 as stated: each of the five callbacks makes the calls try_send_more
\* makes and no other, so that all five are alike.
C12_AllAlike ==
    [][/\ EntersDone => closes' = 1
       /\ Returns => closes' = closes /\ closeRequested' = closeRequested]_vars

\* C12 witness: in stream mode the writable callback sent the final chunk of a
\* 3-byte file and requested the close before returning
C12_Witness ==
    /\ mode = "stream" /\ total_size = 3 /\ sent_bytes = 3
    /\ pc = "idle" /\ closes = 1 /\ closeRequested


\* C13: receiver state is not shared between connections. Once the handler has
\* read from the stream of a later connection, the state it uses for that stream
\* started at 0: its received_bytes counts no more than the bytes read from
\* that stream.
C13_OwnStatePerConnection ==
    (rxConn > 1 /\ strmRead > 0 /\ stream_id # None
        /\ stream_id[1] \in DOMAIN stream_files)
        => stream_files[stream_id[1]].received_bytes <= strmRead


\* the six-field record kind,timestamp,transfer_id_hex,offset,size,mode
SixFields(line) ==
    /\ Len(line) = 6
    /\ line[1] \in {"send", "recv"}
    /\ line[6] \in {"datagram", "stream"}

\* C14: every record of the sender's log and of the receiver's log has exactly
\* the six fields kind,timestamp,transfer_id_hex,offset,size,mode, with kind
\* send or recv and mode datagram or stream.
C14_TelemetrySchema ==
    /\ \A i \in 1..Len(csvSend) : SixFields(csvSend[i])
    /\ \A i \in 1..Len(csvRecv) : SixFields(csvRecv[i])


\* C15: for every configured flush_every, once records have been appended to
\* the receiver's log the number of records appended since the last flush is
\* less than flush_every.
C15_FlushCadence ==
    (rxCsvOn /\ csv_count > 0) => unflushed < csv_flush_every


\* a submission answered with a transport error other than would-block
TransportError ==
    \/ \E ev \in BOOLEAN : SendDatagram("Err", ev)
    \/ SendStream("Err", 0)

\* C16: when a submission fails with a transport error other than would-block,
\* the loop is left for that invocation (the callback returns) with sent_bytes
\* and next_deadline unchanged, no send record is written, and no connection
\* close is requested by that invocation.
C16_HardErrorAbandons ==
    [][TransportError
          => /\ pc' = "idle"
             /\ sent_bytes' = sent_bytes
             /\ next_deadline' = next_deadline
             /\ csvSend' = csvSend
             /\ closeRequested' = closeRequested
             /\ closes' = closes]_vars

\* the second chunk of a logged transfer has just been refused with an error
C16_Witness ==
    /\ lastResult = "Err" /\ pc = "idle"
    /\ csvOn /\ Len(csvSend) = 1
    /\ Len(chunks) = 2 /\ chunks[2].offset = sent_bytes
    /\ sent_bytes < total_size
    /\ ~closeRequested


\* no read of the source file has succeeded so far: nothing was ever submitted
EveryReadFailed == chunks = <<>>

\* C17: when reading the source file fails the sender submits nothing for that
\* chunk, leaves sent_bytes and next_deadline unchanged and returns from the
\* invocation without asking for a close; as long as every read has failed,
\* sent_bytes is below total_size, no close has been requested and the
\* connection is open.
C17_ReadFailureStalls ==
    /\ [][ReadFails
             => /\ pc' = "idle"
                /\ UNCHANGED <<sent_bytes, next_deadline, csvSend, chunks, produced,
                               net, owed, strm, strmFin>>
                /\ closeRequested' = closeRequested
                /\ closes' = closes]_vars
    /\ []((EveryReadFailed /\ total_size > 0)
             => /\ sent_bytes = 0
                /\ ~closeRequested /\ closes = 0
                /\ pc # "closed")

\* a callback has returned with the loop condition true and nothing submitted:
\* every read it made failed
C17_Witness ==
    /\ EveryReadFailed
    /\ pc = "idle" /\ lastResult = "none"
    /\ mode = "stream" /\ total_size > 0 /\ chunk > 0
    /\ clock >= next_deadline
    /\ clock > 0


\* the message being handled, as bytes on the wire: its declared offset and
\* length, and the payload bytes present after the 40 header bytes
Msg == Head(dgQueue)
DeclaredOffset == GetLe(Slice(Msg, 17, 24))
DeclaredLen == GetLe(Slice(Msg, 25, 28))
PayloadPresent == Slice(Msg, 41, Len(Msg))
MsgPath == dgram_files'[GetLe(Slice(Msg, 1, 8))].path

\* the file went from before to after by a write of bytes at offset off
WrittenAt(before, after, off, bytes) ==
    /\ Len(after) = IF bytes = <<>> \/ Len(before) > off + Len(bytes)
                    THEN Len(before) ELSE off + Len(bytes)
    /\ \A i \in 1..Len(bytes) : after[off + i] = bytes[i]
    /\ \A i \in 1..Len(before) :
          (i <= off \/ i > off + Len(bytes)) => after[i] = before[i]

\* handling Msg succeeded and put the first n bytes of its payload at its
\* declared offset; the receive record, if a log is kept, carries size n
WroteFirst(n) ==
    /\ WrittenAt(IF MsgPath \in DOMAIN fs THEN fs[MsgPath] ELSE <<>>,
                 fs'[MsgPath], DeclaredOffset, Slice(PayloadPresent, 1, n))
    /\ rxLast'.written = n
    /\ rxCsvOn => /\ Len(csvRecv') = Len(csvRecv) + 1
                  /\ csvRecv'[Len(csvRecv')][4] = DeclaredOffset
                  /\ csvRecv'[Len(csvRecv')][5] = n

\* C18: for every inbound chunk with a decodable header whose file operations
\* succeed, the receiver writes at the declared offset the first
\* min(declared length, payload length) bytes of the payload: fewer than
\* declared when the payload is shorter, fewer than present when the payload is
\* longer. The size field of the receive record is the number of bytes written.
C18_TruncatedWrite ==
    [][(Handles /\ Len(Msg) >= HdrSize /\ rxLast'.ok)
          => WroteFirst(Min(DeclaredLen, Len(PayloadPresent)))]_vars

\* C18 as stated: the bytes written are the payload bytes present in the
\* message
C18_WritesPayloadPresent ==
    [][(Handles /\ Len(Msg) >= HdrSize /\ rxLast'.ok)
          => WroteFirst(Len(PayloadPresent))]_vars

\* C18 witness: a chunk declaring 3 bytes and carrying 1 was written and logged
C18_Witness ==
    /\ rxLast.ok
    /\ rxLast.msg = WriteTo(Hdr(OtherId, 2, 1, 3, 1)) \o <<7>>
    /\ rxLast.written = 1
    /\ rxCsvOn /\ csvRecv # <<>> /\ csvRecv[Len(csvRecv)][5] = 1


\* the transfer and the total the message being handled declares
MsgId == GetLe(Slice(Msg, 1, 8))
DeclaredTotal == GetLe(Slice(Msg, 9, 16))

\* C19: the receiver's total_size of a transfer is the one declared by the
\* chunk that created its state. A later chunk of the same transfer_id, whatever
\* total_size it declares, changes neither the stored total_size nor the output
\* file in use (no other file is created or written), and completion is
\* reported by comparing the file length with the stored, first-seen value.
C19_FirstTotalFixed ==
    [][(Handles /\ Len(Msg) >= HdrSize)
          => /\ (MsgId \notin DOMAIN dgram_files /\ MsgId \in DOMAIN dgram_files')
                   => dgram_files'[MsgId].total = DeclaredTotal
             /\ MsgId \in DOMAIN dgram_files
                   => /\ dgram_files'[MsgId].total = dgram_files[MsgId].total
                      /\ dgram_files'[MsgId].path = dgram_files[MsgId].path
                      /\ DOMAIN fs' = DOMAIN fs
                      /\ \A q \in DOMAIN fs :
                            q # dgram_files[MsgId].path => fs'[q] = fs[q]
                      /\ rxLast'.reported
                           <=> /\ rxLast'.ok
                               /\ Msg[29] % 2 = 1
                               /\ Len(fs'[dgram_files[MsgId].path])
                                     >= dgram_files[MsgId].total]_vars

\* C19 witness: the transfer was created with total 5; a chunk of it that
\* declares total 2 and carries the last flag was written when the file is
\* 2 bytes long, and completion was not reported
C19_Witness ==
    /\ rxLast.ok /\ rxLast.last /\ ~rxLast.reported
    /\ rxLast.msg = WriteTo(Hdr(FileId, 2, 0, 1, 1)) \o <<33>>
    /\ dgram_files[FileId].total = 5
    /\ DOMAIN fs = {DgPath(FileId, 5)}
    /\ Len(fs[DgPath(FileId, 5)]) = 2


\* the chunks for which sent_bytes has advanced
NumCounted == Cardinality({i \in 1..Len(chunks) : Counted(i)})

\* one iteration of the loop that reaches the transport
SubmitStep ==
    \/ \E res \in {"Ok", "Done", "Err"}, ev \in BOOLEAN : SendDatagram(res, ev)
    \/ \E res \in {"Ok", "Partial", "Done", "Err"}, k \in 0..MaxChunk : SendStream(res, k)

\* C20: open-loop pacing. on_conn_established sets next_deadline to the current
\* instant; from then on next_deadline is that instant plus one interval per
\* chunk counted as sent (a refused or unread chunk adds nothing); the k-th
\* chunk (k chunks counted before it) is never submitted before that instant
\* plus k intervals; and a callback returns with data left and the deadline
\* passed only when a read or a submission failed, so the chunks missed during
\* a stall are submitted one after the other in the same invocation.
C20_OpenLoopPacing ==
    /\ [](opened = None => next_deadline = 0 /\ chunks = <<>>)
    /\ [](opened # None
            => next_deadline = opened[1] + NumCounted * interval_per_chunk)
    /\ [][OnConnEstablished => next_deadline' = clock /\ opened' = Some(clock)]_vars
    /\ [][SubmitStep
            => /\ opened # None
               /\ clock >= opened[1] + NumCounted * interval_per_chunk
               /\ next_deadline' = IF sent_bytes' # sent_bytes \/ pc' = "loop"
                                   THEN next_deadline + interval_per_chunk
                                   ELSE next_deadline]_vars
    /\ [][(Returns /\ LoopCond) => (ReadFails \/ TransportError)]_vars

\* C20 witness: pacing opened at 0 with an interval of one tick and the first
\* chunk went out at once; nothing ran for two ticks; the callback now running
\* has submitted the chunks due at 1 and at 2, both at instant 2
C20_Witness ==
    /\ opened = Some(0) /\ interval_per_chunk = 1 /\ clock = 2
    /\ pc = "loop" /\ lastResult = "Ok"
    /\ Len(chunks) = 3 /\ sent_bytes = 3 /\ next_deadline = 3
    /\ csvOn /\ Len(csvSend) = 3
    /\ csvSend[1][2] = 0 /\ csvSend[2][2] = 2 /\ csvSend[3][2] = 2


RECURSIVE SizeSum(_)
\* the sum of the size fields of the records of log
SizeSum(log) == IF log = <<>> THEN 0 ELSE Head(log)[5] + SizeSum(Tail(log))

\* the records of the send log have contiguous offsets from 0 and their sizes
\* add up to sent_bytes
SendLogContiguous ==
    /\ \A i \in 1..Len(csvSend) : csvSend[i][4] = SizeSum(SubSeq(csvSend, 1, i - 1))
    /\ SizeSum(csvSend) = sent_bytes

\* C21: with a send log configured, a step appends one send record exactly when
\* it advances sent_bytes and no record otherwise; in every state the records
\* have contiguous offsets starting at 0 and their sizes add up to sent_bytes.
C21_OneRecordPerAdvance ==
    /\ [](csvOn => SendLogContiguous)
    /\ [][csvOn => /\ Len(csvSend') = Len(csvSend) + 1 <=> sent_bytes' > sent_bytes
                   /\ Len(csvSend') # Len(csvSend) + 1 => csvSend' = csvSend]_vars


\* the step calls conn.close: a callback that finds nothing to send and ends at
\* once, or a callback that closes as it returns
CloseIssued ==
    \/ pc \in {"created", "idle"} /\ pc' = "idle" /\ clock' = clock /\ closes' > 0
    \/ pc = "loop" /\ closes' > closes

\* C22: the sender never asks for a close while sent_bytes < total_size: every
\* step that calls conn.close, in whatever callback and order of events, starts
\* and ends with sent_bytes >= total_size, and a close has been requested only
\* in states with sent_bytes >= total_size.
C22_CloseOnlyWhenDone ==
    /\ [][CloseIssued => sent_bytes >= total_size /\ sent_bytes' >= total_size]_vars
    /\ []((closeRequested \/ closes > 0) => sent_bytes >= total_size)

\* C22 witness: a writable event on a finished 2-byte stream transfer has called
\* conn.close twice
C22_Witness ==
    /\ mode = "stream" /\ total_size = 2 /\ sent_bytes = 2
    /\ pc = "idle" /\ closeRequested /\ closes = 2
    /\ Len(chunks) = 2


\* C23: in datagram mode, when the clock advances, reads succeed, every
\* submission is accepted and every submitted datagram yields exactly one
\* delivery-outcome event, sent_bytes eventually reaches total_size.
C23_DatagramProgress == <>(sent_bytes >= total_size)


\* C24: once the sender has requested the close and the connection-closed event
\* has been delivered, the finish flag read by main becomes true and main leaves
\* its loop.
C24_MainLoopExits == (pc = "closed") ~> (finish /\ exited)


\* C25: every invocation of the loop of try_send_more terminates, for every
\* chunk size (0 included) and every total_size, because each iteration that
\* does not break strictly increases sent_bytes, which the loop guard bounds by
\* total_size.
C25_IterationAdvances ==
    [][(SubmitStep /\ pc' = "loop") => sent_bytes' > sent_bytes]_vars


\* a stream_write call that returned Ok(n), with n the whole buffer or part of it
StreamWriteOk == \E res \in {"Ok", "Partial"}, k \in 0..MaxChunk : SendStream(res, k)

\* C26: in stream mode, after every stream_write call that reports a byte count,
\* sent_bytes has grown by exactly the bytes the transport accepted in that
\* call, also when it accepted only part of the buffer.
C26_SentEqualsAccepted ==
    [][StreamWriteOk => sent_bytes' - sent_bytes = Len(strm') - Len(strm)]_vars


\* C27: the receiver never writes outside the declared file: a chunk is written
\* within [0, total_size) of its transfer's state, so no output file of a
\* transfer is longer than that transfer's total_size.
C27_WithinDeclaredFile ==
    /\ [][(Handles /\ Len(Msg) >= HdrSize /\ rxLast'.ok)
            => DeclaredOffset + rxLast'.written <= dgram_files'[MsgId].total]_vars
    /\ [](\A id \in DOMAIN dgram_files :
            dgram_files[id].path \in DOMAIN fs
               => Len(fs[dgram_files[id].path]) <= dgram_files[id].total)

====
